---- MODULE Spec2Model ----
(***************************************************************************)
(* The clamped simulated-annealing cell of the notebook                    *)
(* "12_Training Probabilistic Graphical Models.ipynb" (lines 121-156):     *)
(* an Ising model (h, J), a clamped mapping, a linear schedule of inverse  *)
(* temperatures, the adjacency map, the greedy vertex coloring and the     *)
(* colour-by-colour Metropolis sweep.                                      *)
(*                                                                         *)
(* Numbers: biases and couplings are integers; an inverse temperature and  *)
(* a logarithm of a uniform draw are exact rationals <<numerator,          *)
(* denominator>> with a positive denominator.  Dictionaries are functions; *)
(* the dictionaries h and J are entered in ascending key order, and a set  *)
(* of small integers is iterated in ascending order, as CPython does.      *)
(***************************************************************************)
EXTENDS Integers, Sequences, FiniteSets, TLC

VARIABLES
    pc,             \* the statement the cell is about to execute
    error,          \* the exception that ended the cell, or "none"
    h,              \* node -> bias
    J,              \* <<n0, n1>> -> coupling
    clamped_spins,  \* node -> clamped spin
    num_sweeps,
    betas,          \* the list βs
    adj,            \* node -> set of neighbours
    colors,         \* color -> set of nodes
    spins,          \* node -> spin
    it_beta,        \* what "for β in βs" has still to yield
    beta,           \* the loop variable β
    energy_diff_h,
    it_color,       \* what "for color in colors" has still to yield
    color,          \* the loop variable color
    energy_diff_J,
    it_v,           \* what "for v in filter(...)" has still to yield
    v,              \* the loop variable v (-1 while unbound)
    logp,           \* the last log of a uniform draw
    class_spins,    \* history: spins when the current sweep or color class started
    logps,          \* history: node -> the draw of its test since class_spins was taken
    sweeps,         \* history: how many times the body of "for β in βs" was entered
    classes,        \* history: the colors "for color in colors" has yielded this sweep
    twin,           \* a second run of the cell on the same inputs, with draws of its own
    same            \* history: the second run has drawn what the first drew, so far

runvars == <<pc, error, h, J, clamped_spins, num_sweeps, betas, adj, colors, spins,
             it_beta, beta, energy_diff_h, it_color, color, energy_diff_J, it_v, v,
             logp, class_spins, logps, sweeps, classes>>

vars == <<runvars, twin, same>>

-----------------------------------------------------------------------------
(* Bounds of the model and the values the inputs are drawn from. *)

MaxNodes == 3
MaxCouplings == 2
MaxClamped == 1
MaxSweeps == 2

\* The entries of J when two runs are followed side by side.
MaxTwinCouplings == 1

BiasVals == {0, 1}
CouplingVals == {-1, 1}
SpinVals == {-1, 1}

\* The largest |energy_diff_h[v] + energy_diff_J[v]| the inputs can give: biases
\* and couplings are at most 1 in size, and a node is in at most MaxCouplings
\* entries of J.
MaxEnergyDiff == 2 * (1 + MaxCouplings)

\* log(U) for three draws U of np.random.uniform(0, 1): -1/2, -2 (a threshold the
\* test can have) and one below every threshold the test can have at β <= 1, so
\* that each test can come out either way.
LogDraws == {<<-1, 2>>, <<-2, 1>>, <<-1 * (MaxEnergyDiff + 1), 1>>}

NodeIds == 0 .. (MaxNodes - 1)

-----------------------------------------------------------------------------
(* Helpers: iteration orders and sums. *)

Min(S) == CHOOSE x \in S : \A y \in S : x <= y

RECURSIVE Ascending(_)
Ascending(S) == IF S = {} THEN << >> ELSE <<Min(S)>> \o Ascending(S \ {Min(S)})

\* Iteration order of a Python set of small non-negative integers: each sits
\* in the slot of its own hash, so the order is ascending.
SetOrder(S) == Ascending(S)

PairLess(p, q) == p[1] < q[1] \/ (p[1] = q[1] /\ p[2] < q[2])

MinPair(S) == CHOOSE p \in S : \A q \in S : p = q \/ PairLess(p, q)

RECURSIVE PairOrder(_)
PairOrder(S) == IF S = {} THEN << >> ELSE <<MinPair(S)>> \o PairOrder(S \ {MinPair(S)})

RECURSIVE SumOver(_, _)
SumOver(S, f) == IF S = {} THEN 0 ELSE LET x == Min(S) IN f[x] + SumOver(S \ {x}, f)

-----------------------------------------------------------------------------
(* Line 125: βs = [1.0 - 1.0*i / (num_sweeps - 1.) for i in range(num_sweeps)].  *)
(* Entry k (k = 1..n) is 1 - (k-1)/(n-1) = ((n-1) - (k-1)) / (n-1).  For n = 1   *)
(* the one division is by 0.0 and Python raises ZeroDivisionError; for n = 0     *)
(* the range is empty and the list is [].                                        *)

\* Variant: the empty schedule is refused as well.
BetasRaisesOnEmpty(n) == n <= 1

BetasRaises(n) == n = 1

Betas(n) == [k \in 1 .. n |-> <<(n - 1) - (k - 1), n - 1>>]

-----------------------------------------------------------------------------
(* Lines 128-131: the adjacency map.                                             *)

\* adj = {n: set() for n in h}
EmptyAdj(hh) == [n \in DOMAIN hh |-> {}]

\* Variant: adj.setdefault(n, set()).add(m), which never raises.
AdjAddDefault(a, n, m) ==
    [adj |-> [k \in DOMAIN a \cup {n} |->
                 IF k = n THEN (IF n \in DOMAIN a THEN a[n] ELSE {}) \cup {m} ELSE a[k]],
     error |-> "none"]

\* adj[n].add(m): KeyError when n is no key of adj.
AdjAdd(a, n, m) ==
    IF n \in DOMAIN a
    THEN [adj |-> [a EXCEPT ![n] = a[n] \cup {m}], error |-> "none"]
    ELSE [adj |-> a, error |-> "KeyError"]

\* Variant: only adj[n0].add(n1).
AdjAddForward(a, n0, n1) == AdjAdd(a, n0, n1)

\* Variant: adj[n0].add(n1) and then adj[n1].add(n1).
AdjAddSelf(a, n0, n1) ==
    LET first == AdjAdd(a, n0, n1)
    IN  IF first.error # "none" THEN first ELSE AdjAdd(first.adj, n1, n1)

\* One turn of "for n0, n1 in J": adj[n0].add(n1) and then adj[n1].add(n0).
AdjAddBoth(a, n0, n1) ==
    LET first == AdjAdd(a, n0, n1)
    IN  IF first.error # "none" THEN first ELSE AdjAdd(first.adj, n1, n0)

RECURSIVE AdjLoop(_, _)
AdjLoop(a, keys) ==
    IF keys = << >>
    THEN [adj |-> a, error |-> "none"]
    ELSE LET step == AdjAddBoth(a, Head(keys)[1], Head(keys)[2])
         IN  IF step.error # "none" THEN step ELSE AdjLoop(step.adj, Tail(keys))

\* The map and the exception (or "none") the loop ends with.
BuildAdj(hh, JJ) == AdjLoop(EmptyAdj(hh), PairOrder(DOMAIN JJ))

-----------------------------------------------------------------------------
(* Line 133: __, colors = greedy_coloring(adj), the routine of the dimod         *)
(* library: repeatedly take the first node with the fewest colors still          *)
(* possible, give it the lowest of them, and strike that color from the          *)
(* possible colors of its neighbours that are still uncolored.                   *)

\* min(possible_colors, key=lambda n: len(possible_colors[n])): the first key, in
\* the dictionary's (ascending) order, of least cardinality.
FewestColors(possible_colors) ==
    Min({n \in DOMAIN possible_colors :
            \A m \in DOMAIN possible_colors :
                Cardinality(possible_colors[n]) <= Cardinality(possible_colors[m])})

RECURSIVE GreedyLoop(_, _, _, _)
GreedyLoop(a, possible_colors, coloring, cols) ==
    IF DOMAIN possible_colors = {}
    THEN [coloring |-> coloring, colors |-> cols]
    ELSE LET n == FewestColors(possible_colors)
             c == Min(possible_colors[n])
             rest == DOMAIN possible_colors \ {n}
         IN  GreedyLoop(
                 a,
                 [m \in rest |-> IF m \in a[n] THEN possible_colors[m] \ {c}
                                               ELSE possible_colors[m]],
                 [m \in DOMAIN coloring \cup {n} |-> IF m = n THEN c ELSE coloring[m]],
                 [d \in DOMAIN cols \cup {c} |->
                     IF d \in DOMAIN cols THEN (IF d = c THEN cols[d] \cup {n} ELSE cols[d])
                                          ELSE {n}])

greedy_coloring(a) ==
    GreedyLoop(a,
               [n \in DOMAIN a |-> 0 .. (Cardinality(DOMAIN a) - 1)],
               << >>,
               << >>)

\* "for color in colors": the keys in insertion order.  A color is first given
\* only when every lower color is already held by a neighbour, so the keys were
\* inserted in ascending order.
ColorOrder(cols) == Ascending(DOMAIN cols)

-----------------------------------------------------------------------------
(* Lines 135-156: the initial spins, the energy differences and the test.        *)

\* spins = {v: np.random.choice((-1, 1)) if v not in clamped_spins
\*             else clamped_spins[v] for v in h}
InitialSpins(hh, clamped, choice) ==
    [n \in DOMAIN hh |-> IF n \notin DOMAIN clamped THEN choice[n] ELSE clamped[n]]

\* Variant: the bias difference with the opposite sign.
EnergyDiffHPlus(s, hh) == [n \in DOMAIN hh |-> 2 * s[n] * hh[n]]

\* energy_diff_h = {v: -2 * spins[v] * h[v] for v in h}
EnergyDiffH(s, hh) == [n \in DOMAIN hh |-> -2 * s[n] * hh[n]]

\* Variant: the second statement is an elif, so a pair that J holds in both
\* directions counts once.
EdiffTermElif(s, JJ, v0, v1) ==
    IF <<v0, v1>> \in DOMAIN JJ THEN s[v0] * s[v1] * JJ[<<v0, v1>>]
    ELSE IF <<v1, v0>> \in DOMAIN JJ THEN s[v0] * s[v1] * JJ[<<v1, v0>>]
    ELSE 0

\* The two "if ... in J" statements of the inner loop, for one neighbour v1.
EdiffTerm(s, JJ, v0, v1) ==
    (IF <<v0, v1>> \in DOMAIN JJ THEN s[v0] * s[v1] * JJ[<<v0, v1>>] ELSE 0)
    + (IF <<v1, v0>> \in DOMAIN JJ THEN s[v0] * s[v1] * JJ[<<v1, v0>>] ELSE 0)

\* ediff after "for v1 in adj[v0]".
Ediff(s, a, JJ, v0) == SumOver(a[v0], [v1 \in a[v0] |-> EdiffTerm(s, JJ, v0, v1)])

\* energy_diff_J after "for v0 in nodes": energy_diff_J[v0] = -2. * ediff
EnergyDiffJ(s, a, JJ, nodes) == [v0 \in nodes |-> -2 * Ediff(s, a, JJ, v0)]

\* Variant: no filter.
AllNodes(nodes, clamped) == nodes

\* filter(lambda x: x not in clamped_spins, nodes)
FreeNodes(nodes, clamped) == {x \in nodes : x \notin DOMAIN clamped}

\* Variant: <= in place of <.
AcceptOrEqual(lp, b, ed) == lp[1] * b[2] <= (-1 * (b[1] * ed)) * lp[2]

\* Variant: the flip is refused when the threshold is 0.
AcceptNonZero(lp, b, ed) ==
    b[1] * ed # 0 /\ lp[1] * b[2] < (-1 * (b[1] * ed)) * lp[2]

\* logp < -1. * β * (energy_diff_h[v] + energy_diff_J[v]), for logp = lp[1]/lp[2],
\* β = b[1]/b[2] and ed the sum of the two energy differences.
Accept(lp, b, ed) == lp[1] * b[2] < (-1 * (b[1] * ed)) * lp[2]

\* spins[v] *= -1 when the test succeeds.
Updated(s, n, lp, b, ed) == IF Accept(lp, b, ed) THEN [s EXCEPT ![n] = -1 * s[n]] ELSE s

-----------------------------------------------------------------------------
(* The statements of the cell as steps of a run r, a record of the cell's        *)
(* variables.                                                                    *)

\* Line 125.
StepBetas(r) ==
    IF BetasRaises(r.num_sweeps)
    THEN [r EXCEPT !.pc = "error", !.error = "ZeroDivisionError"]
    ELSE [r EXCEPT !.pc = "adj", !.betas = Betas(r.num_sweeps)]

\* Lines 128-131.
StepAdj(r) ==
    LET built == BuildAdj(r.h, r.J)
    IN  IF built.error # "none"
        THEN [r EXCEPT !.pc = "error", !.error = built.error, !.adj = built.adj]
        ELSE [r EXCEPT !.pc = "coloring", !.adj = built.adj]

\* Line 133.
StepColoring(r) == [r EXCEPT !.pc = "spins", !.colors = greedy_coloring(r.adj).colors]

\* Lines 135-136.
StepSpins(r, choice) ==
    [r EXCEPT !.pc = "sweep",
              !.spins = InitialSpins(r.h, r.clamped_spins, choice),
              !.it_beta = r.betas]

\* Variant: the loop over the colors is left after the first class (a break).
AfterClassBreaks(colors_left) == "sweep"

\* Where control goes when the loop over a class's nodes has ended.
AfterClass(colors_left) == IF colors_left # << >> THEN "color" ELSE "sweep"

\* Lines 137-138: the next β and the bias differences of the sweep.
StepSweep(r) ==
    LET order == ColorOrder(r.colors)
    IN  [r EXCEPT !.pc = AfterClass(order),
                  !.beta = Head(r.it_beta),
                  !.it_beta = Tail(r.it_beta),
                  !.energy_diff_h = EnergyDiffH(r.spins, r.h),
                  !.it_color = order,
                  !.class_spins = r.spins,
                  !.logps = << >>,
                  !.sweeps = r.sweeps + 1,
                  !.classes = << >>]

\* Lines 141-153: the next color, the coupling differences of all its nodes, and
\* the iterator over its nodes that are not clamped.
StepColor(r) ==
    LET c == Head(r.it_color)
        nodes == r.colors[c]
        free == SetOrder(FreeNodes(nodes, r.clamped_spins))
    IN  [r EXCEPT !.pc = IF free # << >> THEN "update" ELSE AfterClass(Tail(r.it_color)),
                  !.color = c,
                  !.it_color = Tail(r.it_color),
                  !.energy_diff_J = EnergyDiffJ(r.spins, r.adj, r.J, nodes),
                  !.it_v = free,
                  !.class_spins = r.spins,
                  !.logps = << >>,
                  !.classes = Append(r.classes, c)]

\* Variant: a break after an accepted flip, so the nodes of the class that were
\* still to come are not tested.
StepUpdateBreaks(r, lp) ==
    LET n == Head(r.it_v)
        after == Updated(r.spins, n, lp, r.beta, r.energy_diff_h[n] + r.energy_diff_J[n])
        left == IF after # r.spins THEN << >> ELSE Tail(r.it_v)
    IN  [r EXCEPT !.pc = IF left # << >> THEN "update" ELSE AfterClass(r.it_color),
                  !.v = n,
                  !.it_v = left,
                  !.logp = lp,
                  !.spins = after,
                  !.logps = [m \in DOMAIN r.logps \cup {n} |->
                                IF m = n THEN lp ELSE r.logps[m]]]

\* Lines 153-156: the next node, its draw and its test.
StepUpdate(r, lp) ==
    LET n == Head(r.it_v)
    IN  [r EXCEPT !.pc = IF Tail(r.it_v) # << >> THEN "update" ELSE AfterClass(r.it_color),
                  !.v = n,
                  !.it_v = Tail(r.it_v),
                  !.logp = lp,
                  !.spins = Updated(r.spins, n, lp, r.beta,
                                    r.energy_diff_h[n] + r.energy_diff_J[n]),
                  !.logps = [m \in DOMAIN r.logps \cup {n} |->
                                IF m = n THEN lp ELSE r.logps[m]]]

\* The cell has run to its end.
StepFinish(r) == [r EXCEPT !.pc = "done"]

-----------------------------------------------------------------------------
(* The state machine.                                                            *)

Run == [pc |-> pc, error |-> error, h |-> h, J |-> J, clamped_spins |-> clamped_spins,
        num_sweeps |-> num_sweeps, betas |-> betas, adj |-> adj, colors |-> colors,
        spins |-> spins, it_beta |-> it_beta, beta |-> beta,
        energy_diff_h |-> energy_diff_h, it_color |-> it_color, color |-> color,
        energy_diff_J |-> energy_diff_J, it_v |-> it_v, v |-> v, logp |-> logp,
        class_spins |-> class_spins, logps |-> logps,
        sweeps |-> sweeps, classes |-> classes]

\* The cell's variables take the values of the record r.
Becomes(r) ==
    \E x \in {r} :
        /\ pc' = x.pc /\ error' = x.error /\ h' = x.h /\ J' = x.J
        /\ clamped_spins' = x.clamped_spins /\ num_sweeps' = x.num_sweeps
        /\ betas' = x.betas /\ adj' = x.adj /\ colors' = x.colors /\ spins' = x.spins
        /\ it_beta' = x.it_beta /\ beta' = x.beta /\ energy_diff_h' = x.energy_diff_h
        /\ it_color' = x.it_color /\ color' = x.color /\ energy_diff_J' = x.energy_diff_J
        /\ it_v' = x.it_v /\ v' = x.v /\ logp' = x.logp
        /\ class_spins' = x.class_spins /\ logps' = x.logps
        /\ sweeps' = x.sweeps /\ classes' = x.classes

Pairs == {p \in NodeIds \X NodeIds : p[1] # p[2]}

ModelsH == UNION {[0 .. (n - 1) -> BiasVals] : n \in 1 .. MaxNodes}

ModelsJ == UNION {[D -> CouplingVals] :
                    D \in {E \in SUBSET Pairs : Cardinality(E) <= MaxCouplings}}

Clampings(hh) == UNION {[D -> SpinVals] :
                          D \in {E \in SUBSET DOMAIN hh : Cardinality(E) <= MaxClamped}}

Init ==
    /\ h \in ModelsH
    /\ J \in ModelsJ
    /\ clamped_spins \in Clampings(h)
    /\ num_sweeps \in 0 .. MaxSweeps
    /\ pc = "betas" /\ error = "none"
    /\ betas = << >> /\ adj = << >> /\ colors = << >> /\ spins = << >>
    /\ it_beta = << >> /\ beta = <<0, 1>> /\ energy_diff_h = << >>
    /\ it_color = << >> /\ color = -1 /\ energy_diff_J = << >>
    /\ it_v = << >> /\ v = -1 /\ logp = <<0, 1>>
    /\ class_spins = << >> /\ logps = << >>
    /\ sweeps = 0 /\ classes = << >>
    /\ twin = Run
    /\ same = TRUE

MakeBetas == pc = "betas" /\ Becomes(StepBetas(Run))

MakeAdj == pc = "adj" /\ Becomes(StepAdj(Run))

Coloring == pc = "coloring" /\ Becomes(StepColoring(Run))

InitSpins ==
    /\ pc = "spins"
    /\ \E choice \in [DOMAIN h -> SpinVals] :
          /\ \A n \in DOMAIN clamped_spins : choice[n] = clamped_spins[n]
          /\ Becomes(StepSpins(Run, choice))

SweepStart == pc = "sweep" /\ it_beta # << >> /\ Becomes(StepSweep(Run))

ColorStart == pc = "color" /\ Becomes(StepColor(Run))

UpdateNode == pc = "update" /\ \E lp \in LogDraws : Becomes(StepUpdate(Run, lp))

Finish == pc = "sweep" /\ it_beta = << >> /\ Becomes(StepFinish(Run))

Alone == UNCHANGED <<twin, same>>

Next ==
    \/ MakeBetas /\ Alone
    \/ MakeAdj /\ Alone
    \/ Coloring /\ Alone
    \/ InitSpins /\ Alone
    \/ SweepStart /\ Alone
    \/ ColorStart /\ Alone
    \/ UpdateNode /\ Alone
    \/ Finish /\ Alone

Spec == Init /\ [][Next]_vars

-----------------------------------------------------------------------------
(* Two runs side by side on the same inputs: whenever the cell takes a step, its *)
(* twin takes its own next step, with random values of its own, drawn            *)
(* independently of the cell's: they may or may not be what the cell has drawn.  *)

Step(r, choice, lp) ==
    CASE r.pc = "betas" -> StepBetas(r)
      [] r.pc = "adj" -> StepAdj(r)
      [] r.pc = "coloring" -> StepColoring(r)
      [] r.pc = "spins" -> StepSpins(r, choice)
      [] r.pc = "sweep" -> IF r.it_beta # << >> THEN StepSweep(r) ELSE StepFinish(r)
      [] r.pc = "color" -> StepColor(r)
      [] r.pc = "update" -> StepUpdate(r, lp)
      [] OTHER -> r

\* What np.random.choice gives the free nodes of the run r (a clamped node
\* takes no choice).  Only the step at line 135 takes a choice.
TwinChoices(r) ==
    IF r.pc = "spins"
    THEN {c \in [DOMAIN r.h -> SpinVals] :
             \A n \in DOMAIN r.clamped_spins : c[n] = r.clamped_spins[n]}
    ELSE {<< >>}

\* What line 154 may draw.  Only the step at line 154 takes a draw.
TwinDraws(r) == IF r.pc = "update" THEN LogDraws ELSE {<<0, 1>>}

\* The twin's step, taken along with the cell's.
Along ==
    \E choice \in TwinChoices(twin), lp \in TwinDraws(twin) :
        /\ twin' = Step(twin, choice, lp)
        /\ same' = (/\ same
                    /\ twin.pc = "spins" => choice = spins'
                    /\ twin.pc = "update" => lp = logp')

NextDet ==
    \/ MakeBetas /\ Along
    \/ MakeAdj /\ Along
    \/ Coloring /\ Along
    \/ InitSpins /\ Along
    \/ SweepStart /\ Along
    \/ ColorStart /\ Along
    \/ UpdateNode /\ Along
    \/ Finish /\ Along

\* Two runs are followed on the inputs with at most MaxTwinCouplings couplings.
InitDet == Init /\ Cardinality(DOMAIN J) <= MaxTwinCouplings

SpecDet == InitDet /\ [][NextDet]_vars

-----------------------------------------------------------------------------
(* Notions the properties are stated with.                                       *)

\* The energy of an assignment: the sum of h[n]*s[n] over the nodes plus the sum
\* of J[(a,b)]*s[a]*s[b] over the entries of J.
Energy(s) ==
    SumOver(DOMAIN h, [n \in DOMAIN h |-> h[n] * s[n]])
    + SumOver(0 .. (Len(PairOrder(DOMAIN J)) - 1),
              [i \in 0 .. (Len(PairOrder(DOMAIN J)) - 1) |->
                  LET p == PairOrder(DOMAIN J)[i + 1]
                  IN  J[p] * s[p[1]] * s[p[2]]])

Flipped(s, n) == [s EXCEPT ![n] = -1 * s[n]]

\* The energy change of flipping node n in assignment s.
FlipEnergy(s, n) == Energy(Flipped(s, n)) - Energy(s)

\* Rationals <<numerator, denominator>> with positive denominators.
RatLess(x, y) == x[1] * y[2] < y[1] * x[2]

\* -β·d for an inverse temperature b and an integer d.
MinusBetaTimes(b, d) == <<-1 * (b[1] * d), b[2]>>

\* Some coupling names a node that is no key of h.
BadCoupling == \E p \in DOMAIN J : p[1] \notin DOMAIN h \/ p[2] \notin DOMAIN h

SpinsExist == DOMAIN spins # {}

-----------------------------------------------------------------------------
(* C1.  Every clamped node holds its clamped value in the initial assignment,    *)
(* after every update step and at the end, and no acceptance test is made for a  *)
(* clamped node: the loop variable v and the nodes that have drawn are never     *)
(* clamped nodes.                                                                *)
C1_ClampedHeld ==
    /\ SpinsExist => \A n \in DOMAIN clamped_spins : spins[n] = clamped_spins[n]
    /\ v \notin DOMAIN clamped_spins
    /\ DOMAIN logps \cap DOMAIN clamped_spins = {}

\* The run has ended after real sweeps over a class that holds a clamped node
\* and a free node, and the free node was tested.
C1_Witness ==
    /\ pc = "done" /\ num_sweeps >= 2
    /\ \E c \in DOMAIN colors : \E n, m \in colors[c] :
          n \in DOMAIN clamped_spins /\ m \notin DOMAIN clamped_spins /\ m = v

\* What J holds for the pair of n and u, in either direction.
Coupling(n, u) ==
    (IF <<n, u>> \in DOMAIN J THEN J[<<n, u>>] ELSE 0)
    + (IF <<u, n>> \in DOMAIN J THEN J[<<u, n>>] ELSE 0)

\* The sum over the neighbours u of n of coupling(n,u)·spin[u].
NeighbourField(s, n) == SumOver(adj[n], [u \in adj[n] |-> Coupling(n, u) * s[u]])

\* The energy delta as the specification writes it.
SpecDeltaE(s, n) == 2 * s[n] * h[n] + 2 * s[n] * NeighbourField(s, n)

(* C2, as the specification states it: a free node is flipped exactly when       *)
(* log(U) < -β·ΔE for ΔE = 2·spin[v]·bias[v] + 2·spin[v]·Σ coupling(v,u)·spin[u] *)
(* over the neighbours u, from the spins before the test.                        *)
C2_FlipIffSpecDelta ==
    [][pc = "update" =>
         ((spins'[v'] = -1 * spins[v'])
            <=> RatLess(logp', MinusBetaTimes(beta, SpecDeltaE(spins, v'))))]_vars

\* The energy change of flipping n, written out term by term.
FlipDeltaE(s, n) == -2 * s[n] * h[n] - 2 * s[n] * NeighbourField(s, n)

(* C2, amended: a free node is flipped exactly when log(U) < -β·ΔE for ΔE the    *)
(* energy change of the flip, ΔE = -2·spin[v]·bias[v] - 2·spin[v]·Σ coupling(v,u)*)
(* ·spin[u], from the spins before the test; otherwise the spin is kept, and no  *)
(* other spin changes.                                                           *)
C2_FlipIffEnergyDelta ==
    [][pc = "update" =>
         /\ v' \notin DOMAIN clamped_spins
         /\ \A n \in DOMAIN spins \ {v'} : spins'[n] = spins[n]
         /\ IF RatLess(logp', MinusBetaTimes(beta, FlipDeltaE(spins, v')))
            THEN spins'[v'] = -1 * spins[v']
            ELSE spins'[v'] = spins[v']]_vars

\* A node with a bias and a neighbour was flipped, at a positive β, against a
\* positive energy change by a draw below the negative threshold.
C2_Witness ==
    /\ pc \in {"color", "sweep"} /\ v # -1
    /\ beta[1] > 0 /\ h[v] # 0 /\ adj[v] # {}
    /\ spins[v] # class_spins[v]
    /\ FlipDeltaE(class_spins, v) > 0

(* C3.  When a coupling names a node that is no key of h, every step of the cell *)
(* leaves it in the adjacency loop or stopped by an exception, the step of the   *)
(* adjacency loop raises (Python's KeyError, from adj[...]; line 125 may have    *)
(* raised ZeroDivisionError before it), and no step has created spins, colors or *)
(* any part of a sweep.                                                          *)
C3_BadCouplingFailsFast ==
    [][BadCoupling =>
         /\ pc' \in {"adj", "error"}
         /\ pc = "adj" => (pc' = "error" /\ error' = "KeyError")
         /\ pc' = "error" => error' \in {"KeyError", "ZeroDivisionError"}
         /\ spins' = << >> /\ colors' = << >> /\ it_beta' = << >>
         /\ energy_diff_h' = << >> /\ v' = -1]_vars

\* The adjacency loop raised KeyError on a coupling whose second node is unknown,
\* after it had already entered the first one.
C3_Witness ==
    /\ pc = "error" /\ error = "KeyError" /\ BadCoupling
    /\ \E n \in DOMAIN adj : adj[n] # {}

-----------------------------------------------------------------------------
\* What of a run r does not hold a random value or a value computed from one:
\* the inputs, the schedule, the adjacency map, the classes, and where the run
\* is in its loops (the sweep, the class, the node under test, what is to come).
Control(r) ==
    [pc |-> r.pc, error |-> r.error, h |-> r.h, J |-> r.J,
     clamped_spins |-> r.clamped_spins, num_sweeps |-> r.num_sweeps,
     betas |-> r.betas, adj |-> r.adj, colors |-> r.colors,
     it_beta |-> r.it_beta, beta |-> r.beta, it_color |-> r.it_color,
     color |-> r.color, it_v |-> r.it_v, v |-> r.v,
     sweeps |-> r.sweeps, classes |-> r.classes]

C6_ProperColoring ==
    colors # << >> =>
      /\ adj = [n \in DOMAIN h |->
                  {m \in NodeIds : <<n, m>> \in DOMAIN J \/ <<m, n>> \in DOMAIN J}]
      /\ \A c \in DOMAIN colors : \A a, b \in colors[c] : <<a, b>> \notin DOMAIN J
      /\ \A n \in DOMAIN h : Cardinality({c \in DOMAIN colors : n \in colors[c]}) = 1
      /\ \A c \in DOMAIN colors : colors[c] # {} /\ colors[c] \subseteq DOMAIN h

\* A coloring with two classes, one of two nodes, of a model with a coupling that
\* is entered from the higher node to the lower and with a node without coupling.
C6_Witness ==
    /\ Cardinality(DOMAIN colors) >= 2
    /\ \E n \in DOMAIN h : adj[n] = {}
    /\ \E c \in DOMAIN colors : Cardinality(colors[c]) >= 2
    /\ \E p \in DOMAIN J : p[1] > p[2]

\* The assignment s gives every clamped node its clamped value.
AgreesWithClamped(s) == \A n \in DOMAIN clamped_spins : s[n] = clamped_spins[n]

(* C7, as the notebook states it: with the notebook's schedule the assignment    *)
(* held after the last sweep has the least energy among all assignments that     *)
(* agree with the clamped spins.                                                 *)
C7_FindsOptimum ==
    (pc = "done" /\ num_sweeps >= 2) =>
       \A s \in [DOMAIN h -> SpinVals] : AgreesWithClamped(s) => Energy(spins) <= Energy(s)

(* C8.  A single free node without couplings whose spin already minimises        *)
(* bias·spin, tested at β = 1: the threshold -β·ΔE of the flip is negative; the  *)
(* spin is kept by every draw with log(U) at or above it and flipped only by a   *)
(* draw below it.                                                                *)
C8_LowEnergySpinKept ==
    [][(/\ pc = "update" /\ DOMAIN h = {0} /\ DOMAIN J = {}
        /\ beta[1] = beta[2] /\ spins[0] * h[0] < 0)
       => LET threshold == MinusBetaTimes(beta, FlipEnergy(spins, 0))
          IN  /\ v' = 0
              /\ RatLess(threshold, <<0, 1>>)
              /\ IF RatLess(logp', threshold) THEN spins'[0] = -1 * spins[0]
                                              ELSE spins'[0] = spins[0]]_vars

\* The node with bias +1 and spin -1 has kept its spin at β = 1 on a draw whose
\* logarithm equals the threshold -2.
C8_Witness ==
    /\ DOMAIN h = {0} /\ h[0] = 1 /\ v = 0 /\ logps # << >>
    /\ beta = <<1, 1>> /\ logp = <<-2, 1>>
    /\ class_spins[0] = -1 /\ spins[0] = -1

(* C9.  Whenever the threshold -β·ΔE of the node under test is at least 0, for   *)
(* ΔE the energy change of the flip (so whenever ΔE <= 0, and at ΔE = 0 or       *)
(* β = 0), the node is flipped whatever the draw.                                *)
C9_CertainAcceptance ==
    [][(/\ pc = "update"
        /\ ~RatLess(MinusBetaTimes(beta, FlipEnergy(spins, Head(it_v))), <<0, 1>>))
       => /\ v' = Head(it_v)
          /\ spins'[v'] = -1 * spins[v']]_vars

\* A node was flipped at a positive β and an energy change of exactly 0, on the
\* draw nearest to U = 1.
C9_Witness ==
    /\ v # -1 /\ logps # << >> /\ beta[1] > 0 /\ logp = <<-1, 2>>
    /\ FlipEnergy(class_spins, v) = 0
    /\ spins[v] = -1 * class_spins[v]

\* One strictly sequential update of node n: its differences from the spins s
\* as they are, then the test with the draw of n.
SeqUpdate(s, n) ==
    Updated(s, n, logps[n], beta,
            EnergyDiffH(s, h)[n] + EnergyDiffJ(s, adj, J, {n})[n])

RECURSIVE SeqUpdates(_, _)
SeqUpdates(s, order) ==
    IF order = << >> THEN s ELSE SeqUpdates(SeqUpdate(s, Head(order)), Tail(order))

\* All orders of the nodes of S.
Orders(S) ==
    {q \in [1 .. Cardinality(S) -> S] : \A i, j \in 1 .. Cardinality(S) : q[i] = q[j] => i = j}

(* C10.  While a color class is updated, energy_diff_J is what the spins at the  *)
(* start of the class give for every member; and the spins after the tests made  *)
(* so far are those that strictly sequential single-node updates (the node's     *)
(* differences evaluated from the then-current spins, then the test with the     *)
(* node's draw) give from the spins at the start of the class, in any order of   *)
(* the tested nodes.                                                             *)
C10_BatchEqualsSequential ==
    class_spins # << >> =>
      /\ (pc = "update" \/ logps # << >>)
            => energy_diff_J = EnergyDiffJ(class_spins, adj, J, colors[color])
      /\ \A q \in Orders(DOMAIN logps) : SeqUpdates(class_spins, q) = spins

\* Two nodes of one class, one of them coupled to a node of another class, have
\* both been tested at a positive β and one of the two was flipped.
C10_Witness ==
    /\ Cardinality(DOMAIN logps) >= 2 /\ it_v = << >> /\ beta[1] > 0
    /\ \E n \in DOMAIN logps : adj[n] # {}
    /\ \E n \in DOMAIN logps : spins[n] # class_spins[n]

-----------------------------------------------------------------------------
(* The cell under the interpreter, which executes the next statement of the     *)
(* sweep loop as long as there is one: once the loop is entered, the run stops   *)
(* only at the end of the cell.                                                  *)

SpecLive ==
    /\ Init /\ [][Next]_vars
    /\ WF_vars(SweepStart /\ Alone)
    /\ WF_vars(ColorStart /\ Alone)
    /\ WF_vars(UpdateNode /\ Alone)
    /\ WF_vars(Finish /\ Alone)

\* No element occurs twice in the sequence q.
NoRepeat(q) == \A i, j \in DOMAIN q : q[i] = q[j] => i = j

Range(q) == {q[i] : i \in DOMAIN q}

\* The body of the sweep loop has been entered and has run to its end.
SweepOver == pc \in {"sweep", "done"} /\ sweeps > 0

\* In every state: at most N sweeps have begun; the sweep that has begun k-th
\* holds the k-th entry of the schedule in β and leaves the entries after it to
\* come; no color class has been taken twice in the sweep, and when the sweep is
\* over every class has been taken; at the end N sweeps have been made.
SweepsInOrder ==
    /\ sweeps <= Len(betas)
    /\ sweeps > 0 => /\ beta = betas[sweeps]
                     /\ it_beta = SubSeq(betas, sweeps + 1, Len(betas))
    /\ NoRepeat(classes)
    /\ Range(classes) \subseteq DOMAIN colors
    /\ SweepOver => Range(classes) = DOMAIN colors
    /\ pc = "done" => sweeps = num_sweeps /\ Len(betas) = num_sweeps

\* In every step: a sweep begins only when the one before it is over, β changes
\* only when a sweep begins, a class is taken only inside a sweep, and the step
\* that ends the cell leaves the assignment as the last sweep left it.
SweepsOneByOne ==
    /\ sweeps' \in {sweeps, sweeps + 1}
    /\ sweeps' = sweeps + 1 => /\ pc = "sweep" /\ it_v = << >> /\ it_color = << >>
                               /\ sweeps > 0 => Range(classes) = DOMAIN colors
    /\ beta' # beta => sweeps' = sweeps + 1
    /\ classes' # classes => (sweeps' = sweeps + 1 \/ (sweeps' = sweeps /\ sweeps > 0))
    /\ (pc # "done" /\ pc' = "done") => spins' = spins /\ sweeps' = sweeps

(* C11.  With a schedule of N >= 1 entries the run terminates after exactly N    *)
(* sweeps: the k-th sweep uses the k-th entry of the schedule and no other, a    *)
(* sweep begins only when the one before it is over, every color class is taken  *)
(* exactly once per sweep, and the result is the assignment the N-th sweep left. *)
C11_TerminatesAfterNSweeps ==
    /\ []SweepsInOrder
    /\ [][SweepsOneByOne]_vars
    /\ (pc = "sweep" /\ Len(betas) >= 1) ~> (pc = "done" /\ sweeps = Len(betas))

\* The cell has ended after two sweeps over at least two color classes, and the
\* last class of the second sweep, made with the second entry, changed a spin.
C11_Witness ==
    /\ pc = "done" /\ Len(betas) = 2 /\ sweeps = 2
    /\ Len(classes) >= 2 /\ beta = betas[2]
    /\ spins # class_spins

(* C12.  The schedule line 125 builds for num_sweeps = N >= 2 starts at 1.0,     *)
(* strictly decreases, and every entry of it, the last one included, is          *)
(* positive; so is every β a sweep has been given.                               *)
C12_ScheduleAllPositive ==
    Len(betas) >= 2 =>
      /\ betas[1][1] = betas[1][2]
      /\ \A i \in 1 .. (Len(betas) - 1) : RatLess(betas[i + 1], betas[i])
      /\ \A i \in 1 .. Len(betas) : betas[i][1] > 0
      /\ sweeps > 0 => beta[1] > 0

(* C13.  When the test of a free node is about to be evaluated, the compared     *)
(* quantity energy_diff_h[v] + energy_diff_J[v] is the energy of the current     *)
(* assignment with v flipped minus the energy of the current assignment (every   *)
(* entry of J counted, both directions of a pair included), although the bias    *)
(* term was computed when the sweep began and the coupling term when the class   *)
(* began: both terms are what the current spins give, no node of the class is a  *)
(* neighbour of v, and v has not been tested since the class began.              *)
C13_CachedDiffIsFlipEnergy ==
    pc = "update" =>
      LET n == Head(it_v)
      IN  /\ n \notin DOMAIN clamped_spins
          /\ energy_diff_h[n] + energy_diff_J[n] = FlipEnergy(spins, n)
          /\ energy_diff_h[n] = EnergyDiffH(spins, h)[n]
          /\ energy_diff_J[n] = EnergyDiffJ(spins, adj, J, {n})[n]
          /\ colors[color] \cap adj[n] = {}
          /\ n \notin DOMAIN logps

\* In the second sweep a node with a bias, coupled in both directions to a node
\* of another class, is about to be tested after a node of its own class was
\* flipped.
C13_Witness ==
    /\ pc = "update" /\ sweeps = 2
    /\ logps # << >> /\ spins # class_spins
    /\ h[Head(it_v)] # 0
    /\ \E u \in adj[Head(it_v)] :
          <<Head(it_v), u>> \in DOMAIN J /\ <<u, Head(it_v)>> \in DOMAIN J

====
